---- MODULE Spec2Model ----
(***************************************************************************)
(* Theme switching controller of mint-color-theme.                         *)
(*                                                                         *)
(* Two designs live in the repository:                                     *)
(*   "binary"  src/theme.js (src/unnamed/part_002 is the same code under a *)
(*             header comment): one toggle, storage key "dark-mode";       *)
(*   "tri"     src/unnamed/part_001: controls system / light / dark,       *)
(*             storage key "color-mode", an early asset preload.           *)
(* One page load is modelled: the markup is chosen in Init, the script is  *)
(* evaluated, and then DOMContentLoaded, clicks on the toggle controls,    *)
(* OS color-scheme changes and page reloads arrive in any order.           *)
(***************************************************************************)
EXTENDS Integers, Sequences, FiniteSets, TLC

VARIABLES
    variant,        \* which script the page includes: "binary" or "tri"
    scriptTag,      \* the page has an element with a tr-color-vars attribute
    trColorVars,    \* the value of that attribute, a string of lexemes
    rootStyle,      \* custom properties the stylesheet gives the root
    markup,         \* the theme-aware elements as the page's HTML has them
    controlsInPage, \* toggle controls the page's HTML has
    readyAtEval,    \* document.readyState when the script is evaluated
    osDark,         \* matchMedia("(prefers-color-scheme: dark)").matches
    localStorage,   \* key -> value, null when the key is absent
    readyState,     \* document.readyState
    pc,             \* "start": script not evaluated yet, "done": evaluated
    lightColors,    \* Color Table, light half
    darkColors,     \* Color Table, dark half
    darkMode,       \* root element has class dark-mode
    style,          \* inline custom properties of the root element
    elements,       \* live theme-aware elements of the document
    controls,       \* live toggle controls: active / aria state / click bound
    toggleEl,       \* binary: FALSE while toggleEl is undefined
    togglePressed,  \* binary: the togglePressed string
    domListener,    \* a DOMContentLoaded listener is registered
    mqListener,     \* an OS color-scheme change listener is registered
    console,        \* warnings logged since the page load
    preload,        \* tri: locals of preloadCorrectAssets at this page load
    initial,        \* tri: locals of initializeTheme's setTheme call
    clicked         \* the user has clicked a toggle control, now or on an
                    \* earlier load of the page

config == <<variant, scriptTag, trColorVars, rootStyle, markup, controlsInPage, readyAtEval>>

tables == <<lightColors, darkColors>>

vars == <<variant, scriptTag, trColorVars, rootStyle, markup, controlsInPage, readyAtEval,
          osDark, localStorage, readyState, pc, lightColors, darkColors,
          darkMode, style, elements, controls, toggleEl, togglePressed,
          domListener, mqListener, console, preload, initial, clicked>>

----
\* JavaScript values

null == "<null>"

\* ToBoolean of a string-or-null value
Truthy(v) == v # null /\ v # ""

\* an object without own keys
EmptyObject == [k \in {} |-> ""]

\* object[key] = value
Put(object, key, value) ==
    [k \in (DOMAIN object) \cup {key} |-> IF k = key THEN value ELSE object[k]]

----
\* Bounds of the model

\* longest tr-color-vars value, counted in lexemes
MaxLen == 3

\* a tr-color-vars value is a string of these lexemes: two comma-free
\* pieces of text and the comma
Alphabet == {"brand", "bg", ","}

RECURSIVE StringsUpTo(_)
StringsUpTo(n) ==
    IF n = 0 THEN {<<>>}
    ELSE LET shorter == StringsUpTo(n - 1)
         IN  shorter \cup {Append(s, c) : s \in {t \in shorter : Len(t) = n - 1}, c \in Alphabet}

----
\* Strings, custom properties and the Color Table

\* String.prototype.split(","): "" gives [""], "a," gives ["a", ""]
RECURSIVE SplitFrom(_, _, _)
SplitFrom(rest, item, items) ==
    IF rest = <<>> THEN Append(items, item)
    ELSE IF Head(rest) = ","
         THEN SplitFrom(Tail(rest), <<>>, Append(items, item))
         ELSE SplitFrom(Tail(rest), Append(item, Head(rest)), items)

split(string) == SplitFrom(string, <<>>, <<>>)

\* the template strings `--color--${item}` and `--dark--${item}`
ColorVar(item) == <<"--color--">> \o item

DarkVar(item) == <<"--dark--">> \o item

\* getComputedStyle(htmlElement).getPropertyValue(name): the inline value
\* wins over the stylesheet's, an undeclared property reads as ""
getPropertyValue(name) ==
    IF name \in DOMAIN style THEN style[name]
    ELSE IF name \in DOMAIN rootStyle THEN rootStyle[name]
    ELSE ""

\* captureBinary without the test of lightValue.length
captureBinaryNoSkip(item, colors) ==
    LET lightValue == getPropertyValue(ColorVar(item))
        darkValue  == getPropertyValue(DarkVar(item))
    IN  [light |-> Put(colors.light, ColorVar(item), lightValue),
         dark  |-> Put(colors.dark, ColorVar(item),
                       IF darkValue = "" THEN lightValue ELSE darkValue)]

\* the forEach body of the binary script's color capture
captureBinary(item, colors) ==
    LET lightValue == getPropertyValue(ColorVar(item))
        darkValue  == getPropertyValue(DarkVar(item))
    IN  IF lightValue # ""
        THEN [light |-> Put(colors.light, ColorVar(item), lightValue),
              dark  |-> Put(colors.dark, ColorVar(item),
                            IF darkValue = "" THEN lightValue ELSE darkValue)]
        ELSE colors

\* captureTri without the fallback to lightValue
captureTriNoFallback(item, colors) ==
    LET lightValue == getPropertyValue(ColorVar(item))
        darkValue  == getPropertyValue(DarkVar(item))
    IN  [light |-> Put(colors.light, ColorVar(item), lightValue),
         dark  |-> Put(colors.dark, ColorVar(item), darkValue)]

\* the forEach body of the tri-state script's color capture
captureTri(item, colors) ==
    LET lightValue == getPropertyValue(ColorVar(item))
        darkValue  == IF Truthy(getPropertyValue(DarkVar(item)))
                      THEN getPropertyValue(DarkVar(item))
                      ELSE lightValue
    IN  [light |-> Put(colors.light, ColorVar(item), lightValue),
         dark  |-> Put(colors.dark, ColorVar(item), darkValue)]

RECURSIVE captureColors(_, _, _)
captureColors(v, items, colors) ==
    IF items = <<>> THEN colors
    ELSE captureColors(v, Tail(items),
                       IF v = "binary" THEN captureBinary(Head(items), colors)
                       ELSE captureTri(Head(items), colors))

NoColors == [light |-> EmptyObject, dark |-> EmptyObject]

\* htmlElement.style.setProperty(key, value): an empty value removes the
\* property
setProperty(inline, key, value) ==
    IF value = ""
    THEN [k \in (DOMAIN inline) \ {key} |-> inline[k]]
    ELSE Put(inline, key, value)

RECURSIVE setColorsOver(_, _, _)
setColorsOver(keys, inline, colorObject) ==
    IF keys = {} THEN inline
    ELSE LET key == CHOOSE k \in keys : TRUE
         IN  setColorsOver(keys \ {key}, setProperty(inline, key, colorObject[key]),
                           colorObject)

setColors(inline, colorObject) ==
    setColorsOver(DOMAIN colorObject, inline, colorObject)

----
\* Theme-aware elements and the Asset Resolver

\* most calls a vector-animation player's log keeps before the model stops
\* applying modes to it
MaxCalls == 6

\* String(value), as the reflecting src property of an image converts it
StringOf(value) == IF value = null THEN "null" ELSE value

\* switchImageSource assigning without the tests of the attributes
switchImageSourceAlways(element, isDark) ==
    IF isDark
    THEN [element EXCEPT !.src    = StringOf(element.dataDarkSrc),
                         !.srcset = StringOf(element.dataDarkSrcset)]
    ELSE [element EXCEPT !.src    = StringOf(element.dataLightSrc),
                         !.srcset = StringOf(element.dataLightSrcset)]

\* switchImageSource(element, isDark) of the tri-state script
switchImageSource(element, isDark) ==
    LET lightSrc    == element.dataLightSrc
        darkSrc     == element.dataDarkSrc
        lightSrcset == element.dataLightSrcset
        darkSrcset  == element.dataDarkSrcset
    IN  IF isDark
        THEN [element EXCEPT !.src    = IF Truthy(darkSrc) THEN darkSrc ELSE @,
                             !.srcset = IF Truthy(darkSrcset) THEN darkSrcset ELSE @]
        ELSE [element EXCEPT !.src    = IF Truthy(lightSrc) THEN lightSrc ELSE @,
                             !.srcset = IF Truthy(lightSrcset) THEN lightSrcset ELSE @]

\* the calls of one reload of a player
Reloading(newSrc) == <<<<"stop", null>>, <<"load", newSrc>>, <<"play", null>>>>

\* the lottie-player branch without the fallback to the light source
switchPlayerNoFallback(asset, isDark) ==
    LET newSrc == IF isDark THEN asset.dataDarkSrc ELSE asset.dataLightSrc
    IN  IF Truthy(newSrc) /\ asset.src # newSrc
        THEN [asset EXCEPT !.calls  = @ \o Reloading(newSrc),
                           !.loaded = newSrc,
                           !.src    = IF asset.loadSetsSrc THEN newSrc ELSE @]
        ELSE asset

\* the lottie-player branch of the tri-state switchAssets.  The player
\* starts with the source of its src attribute loaded; load(newSrc) makes
\* newSrc the loaded source, and what it does to the src attribute is the
\* player's business: loadSetsSrc
switchPlayer(asset, isDark) ==
    LET lightSrc == asset.dataLightSrc
        darkSrc  == asset.dataDarkSrc
        newSrc   == IF isDark /\ Truthy(darkSrc) THEN darkSrc ELSE lightSrc
    IN  IF Truthy(newSrc) /\ asset.src # newSrc
        THEN [asset EXCEPT !.calls  = @ \o Reloading(newSrc),
                           !.loaded = newSrc,
                           !.src    = IF asset.loadSetsSrc THEN newSrc ELSE @]
        ELSE asset

\* the first forEach body of the tri-state switchAssets
switchThemeAsset(asset, isDark) ==
    IF asset.tagName = "lottie-player" THEN switchPlayer(asset, isDark)
    ELSE IF asset.tagName = "picture"
         THEN [asset EXCEPT !.children =
                  [i \in 1..Len(@) |-> switchImageSource(@[i], isDark)]]
         ELSE IF asset.tagName = "img" THEN switchImageSource(asset, isDark)
              ELSE asset

\* classList.toggle(token, force)
toggle(classList, token, force) ==
    IF force THEN classList \cup {token} ELSE classList \ {token}

\* the second forEach body with the modes exchanged
switchVisibilitySwapped(asset, isDark) ==
    IF isDark
    THEN [asset EXCEPT !.classList = toggle(@, "hidden", ~("light-asset" \in @))]
    ELSE [asset EXCEPT !.classList = toggle(@, "hidden", ~("dark-asset" \in @))]

\* the second forEach body without the second toggle of each branch
switchVisibilityFirstToggle(asset, isDark) ==
    IF isDark
    THEN [asset EXCEPT !.classList = toggle(@, "hidden", "light-asset" \in @)]
    ELSE [asset EXCEPT !.classList = toggle(@, "hidden", "dark-asset" \in @)]

\* the second forEach body leaving alone an element with both classes
switchVisibilityOneClass(asset, isDark) ==
    IF {"dark-asset", "light-asset"} \subseteq asset.classList THEN asset
    ELSE [asset EXCEPT !.classList =
             toggle(@, "hidden", ~((IF isDark THEN "dark-asset"
                                    ELSE "light-asset") \in @))]

\* the second forEach body of the tri-state switchAssets
switchVisibility(asset, isDark) ==
    IF isDark
    THEN [asset EXCEPT !.classList =
             toggle(toggle(@, "hidden", "light-asset" \in @),
                    "hidden", ~("dark-asset" \in @))]
    ELSE [asset EXCEPT !.classList =
             toggle(toggle(@, "hidden", "dark-asset" \in @),
                    "hidden", ~("light-asset" \in @))]

\* switchAssets(isDark) of the tri-state script over the live elements
switchAssetsTri(els, isDark) ==
    LET sourced == [i \in 1..Len(els) |->
                       IF "theme-asset" \in els[i].classList
                       THEN switchThemeAsset(els[i], isDark) ELSE els[i]]
    IN  [i \in 1..Len(els) |->
            IF sourced[i].classList \cap {"dark-asset", "light-asset"} # {}
            THEN switchVisibility(sourced[i], isDark) ELSE sourced[i]]

\* the forEach body of the binary script's switchAssets: asset.src = ...
\* (an image's src reflects into its attribute as a string, on any other
\* element the assignment only sets a property)
assignSrc(asset, isDark) ==
    LET lightSrc == asset.dataLightSrc
        darkSrc  == asset.dataDarkSrc
        value    == IF isDark THEN darkSrc ELSE lightSrc
    IN  IF asset.tagName \in {"img", "source"}
        THEN [asset EXCEPT !.src = StringOf(value)]
        ELSE [asset EXCEPT !.srcProperty = value]

\* switchAssets(isDark) of the binary script over the live elements
switchAssetsBinary(els, isDark) ==
    [i \in 1..Len(els) |->
        IF "theme-asset" \in els[i].classList
        THEN assignSrc(els[i], isDark) ELSE els[i]]

\* an element without classes or attributes
Blank ==
    [tagName |-> "div", classList |-> {}, dataLightSrc |-> null,
     dataDarkSrc |-> null, dataLightSrcset |-> null, dataDarkSrcset |-> null,
     src |-> null, srcset |-> null, srcProperty |-> null, children |-> <<>>,
     calls |-> <<>>, loaded |-> null, loadSetsSrc |-> FALSE]

\* img and source elements with any subset of the four data attributes
ImageLike(tag, classes) ==
    {[Blank EXCEPT !.tagName = tag, !.classList = classes,
                   !.src = "init.png", !.srcset = "init.set",
                   !.dataLightSrc = ls, !.dataDarkSrc = ds,
                   !.dataLightSrcset = lss, !.dataDarkSrcset = dss] :
        ls \in {null, "light.png"}, ds \in {null, "dark.png"},
        lss \in {null, "light.set"}, dss \in {null, "dark.set"}}

Images == ImageLike("img", {"theme-asset"})

Pictures ==
    {[Blank EXCEPT !.tagName = "picture", !.classList = {"theme-asset"},
                   !.children = <<child>>] :
        child \in ImageLike("source", {}) \cup ImageLike("img", {})}

Players ==
    {[Blank EXCEPT !.tagName = "lottie-player", !.classList = {"theme-asset"},
                   !.dataLightSrc = ls, !.dataDarkSrc = ds, !.src = cur,
                   !.loaded = cur, !.loadSetsSrc = sets] :
        ls \in {null, "light.json"}, ds \in {null, "dark.json"},
        cur \in {null, "light.json", "dark.json"}, sets \in BOOLEAN}

Markers ==
    {[Blank EXCEPT !.classList = classes] :
        classes \in SUBSET {"dark-asset", "light-asset", "hidden"}}

\* the documents of the model: elements are handled one by one, without
\* shared state, so one theme-aware element per document
Documents == {<<e>> : e \in Images \cup Pictures \cup Players \cup Markers}

----
\* Toggle controls

Modes == {"system", "light", "dark"}

\* a control element as the markup has it
PlainControl ==
    [active |-> FALSE, ariaLabel |-> null, role |-> null, ariaPressed |-> null,
     click |-> FALSE]

\* the controls the script of a variant looks for
ControlNames(v) == IF v = "binary" THEN {"toggle"} ELSE Modes

\* updateToggleStates marking the active control without unmarking the others
updateToggleStatesAddOnly(ctl, activeMode) ==
    [c \in DOMAIN ctl |->
        IF c = activeMode THEN [ctl[c] EXCEPT !.active = TRUE] ELSE ctl[c]]

\* updateToggleStates(activeMode) of the tri-state script
updateToggleStates(ctl, activeMode) ==
    [c \in DOMAIN ctl |->
        IF c \in Modes THEN [ctl[c] EXCEPT !.active = (activeMode = c)] ELSE ctl[c]]

\* setupToggles() of the tri-state script
setupToggles(ctl) ==
    [c \in DOMAIN ctl |->
        IF c \in Modes THEN [ctl[c] EXCEPT !.click = TRUE] ELSE ctl[c]]

----
\* The Applier.  d is the part of the state an application changes:
\* [localStorage, darkMode, style, elements, controls, togglePressed]

Current ==
    [localStorage |-> localStorage, darkMode |-> darkMode, style |-> style,
     elements |-> elements, controls |-> controls,
     togglePressed |-> togglePressed]

\* isDark as setTheme and preloadCorrectAssets compute it
resolve(mode, systemDark) ==
    mode = "dark" \/ (mode = "system" /\ systemDark)

\* the stored mode ignored
storedOrSystemAlwaysSystem(storage) == "system"

\* localStorage.getItem("color-mode") || 'system'
storedOrSystem(storage) ==
    IF Truthy(storage["color-mode"]) THEN storage["color-mode"] ELSE "system"

\* setTheme persisting the resolved appearance instead of the mode
setThemePersistingAppearance(d, mode, colors, systemDark) ==
    LET isDark == resolve(mode, systemDark)
    IN  [d EXCEPT !.localStorage = [@ EXCEPT !["color-mode"] =
                                       IF isDark THEN "dark" ELSE "light"],
                  !.darkMode     = isDark,
                  !.style        = setColors(@, IF isDark THEN colors.dark
                                                ELSE colors.light),
                  !.elements     = switchAssetsTri(@, isDark),
                  !.controls     = updateToggleStates(@, mode)]

\* setTheme(mode) of the tri-state script; systemDark is what matchMedia
\* reports during the call
setTheme(d, mode, colors, systemDark) ==
    LET isDark == resolve(mode, systemDark)
    IN  [d EXCEPT !.localStorage = [@ EXCEPT !["color-mode"] = mode],
                  !.darkMode     = isDark,
                  !.style        = setColors(@, IF isDark THEN colors.dark
                                                ELSE colors.light),
                  !.elements     = switchAssetsTri(@, isDark),
                  !.controls     = updateToggleStates(@, mode)]

\* goDark storing "true" but never "false"
goDarkNeverStoringFalse(d, dark, colors, bound) ==
    LET pressed == IF dark THEN "true" ELSE "false"
    IN  [d EXCEPT !.localStorage  = IF dark THEN [@ EXCEPT !["dark-mode"] = "true"]
                                    ELSE @,
                  !.darkMode      = dark,
                  !.style         = setColors(@, IF dark THEN colors.dark
                                                 ELSE colors.light),
                  !.togglePressed = pressed,
                  !.elements      = switchAssetsBinary(@, dark),
                  !.controls      =
                      IF bound
                      THEN [c \in DOMAIN @ |-> [@[c] EXCEPT !.ariaPressed = pressed]]
                      ELSE @]

\* goDark without the update of aria-pressed
goDarkStaleAria(d, dark, colors, bound) ==
    LET pressed == IF dark THEN "true" ELSE "false"
    IN  [d EXCEPT !.localStorage  = [@ EXCEPT !["dark-mode"] = pressed],
                  !.darkMode      = dark,
                  !.style         = setColors(@, IF dark THEN colors.dark
                                                 ELSE colors.light),
                  !.togglePressed = pressed,
                  !.elements      = switchAssetsBinary(@, dark)]

\* goDark(dark) of the binary script; bound is typeof toggleEl !== "undefined"
goDark(d, dark, colors, bound) ==
    LET pressed == IF dark THEN "true" ELSE "false"
    IN  [d EXCEPT !.localStorage  = [@ EXCEPT !["dark-mode"] = pressed],
                  !.darkMode      = dark,
                  !.style         = setColors(@, IF dark THEN colors.dark
                                                 ELSE colors.light),
                  !.togglePressed = pressed,
                  !.elements      = switchAssetsBinary(@, dark),
                  !.controls      =
                      IF bound
                      THEN [c \in DOMAIN @ |-> [@[c] EXCEPT !.ariaPressed = pressed]]
                      ELSE @]

\* the part of an action that stores an application's outcome
Commit(d) ==
    /\ \A i \in 1..Len(d.elements) : Len(d.elements[i].calls) <= MaxCalls
    /\ localStorage'  = d.localStorage
    /\ darkMode'      = d.darkMode
    /\ style'         = d.style
    /\ elements'      = d.elements
    /\ controls'      = d.controls
    /\ togglePressed' = d.togglePressed

----
\* Bootstrap and handlers of the tri-state script

NotRun ==
    [ran |-> FALSE, stored |-> null, mode |-> null, systemDark |-> FALSE,
     isDark |-> FALSE]

\* preloadCorrectAssets(): its locals, and the elements it leaves
preloadLocals(storage, systemDark) ==
    LET currentMode == storedOrSystem(storage)
    IN  [ran |-> TRUE, stored |-> storage["color-mode"], mode |-> currentMode,
         systemDark |-> systemDark,
         isDark |-> currentMode = "dark" \/ (currentMode = "system" /\ systemDark)]

preloadCorrectAssets(d, systemDark) ==
    [d EXCEPT !.elements =
        switchAssetsTri(@, preloadLocals(d.localStorage, systemDark).isDark)]

\* initializeTheme(): the setTheme(storedMode) call (the listener it adds is
\* mqListener)
initializeThemeTri(d, colors, systemDark) ==
    setTheme(d, storedOrSystem(d.localStorage), colors, systemDark)

\* the locals of that call: what was stored, the mode passed to setTheme,
\* what matchMedia reported and the marker class the call left
initializeLocals(storage, systemDark, applied) ==
    [ran |-> TRUE, stored |-> storage["color-mode"],
     mode |-> storedOrSystem(storage), systemDark |-> systemDark,
     isDark |-> applied.darkMode]

\* the listener without its test of the stored mode
onSchemeChangeTriUnguarded(d, colors, systemDark) ==
    setTheme(d, "system", colors, systemDark)

\* the listener never re-applying
onSchemeChangeTriDeaf(d, colors, systemDark) == d

\* the listener initializeTheme adds to the media query, tri-state script
onSchemeChangeTri(d, colors, systemDark) ==
    IF d.localStorage["color-mode"] = "system"
    THEN setTheme(d, "system", colors, systemDark)
    ELSE d

\* the IIFE without its call of preloadCorrectAssets
EvalTriWithoutPreload ==
    LET cssVariables == IF scriptTag THEN split(trColorVars) ELSE <<>>
        colors       == captureColors("tri", cssVariables, NoColors)
        initialized  == initializeThemeTri(Current, colors, osDark)
        ready        == [initialized EXCEPT !.controls = setupToggles(@)]
    IN  /\ lightColors' = colors.light
        /\ darkColors' = colors.dark
        /\ IF readyState = "loading"
           THEN /\ Commit(Current)
                /\ domListener' = TRUE
                /\ UNCHANGED <<mqListener, initial>>
           ELSE /\ Commit(ready)
                /\ mqListener' = TRUE
                /\ initial' = initializeLocals(localStorage, osDark, initialized)
                /\ UNCHANGED domListener
        /\ UNCHANGED <<toggleEl, console, preload>>

\* the IIFE of the tri-state script
EvalTri ==
    LET cssVariables == IF scriptTag THEN split(trColorVars) ELSE <<>>
        colors       == captureColors("tri", cssVariables, NoColors)
        preloaded    == preloadCorrectAssets(Current, osDark)
        initialized  == initializeThemeTri(preloaded, colors, osDark)
        ready        == [initialized EXCEPT !.controls = setupToggles(@)]
    IN  /\ lightColors' = colors.light
        /\ darkColors' = colors.dark
        /\ preload' = preloadLocals(localStorage, osDark)
        /\ IF readyState = "loading"
           THEN /\ Commit(preloaded)
                /\ domListener' = TRUE
                /\ UNCHANGED <<mqListener, initial>>
           ELSE /\ Commit(ready)
                /\ mqListener' = TRUE
                /\ initial' = initializeLocals(preloaded.localStorage, osDark,
                                                initialized)
                /\ UNCHANGED domListener
        /\ UNCHANGED <<toggleEl, console>>

\* the DOMContentLoaded listener of the tri-state script
ReadyTri ==
    LET colors      == [light |-> lightColors, dark |-> darkColors]
        initialized == initializeThemeTri(Current, colors, osDark)
    IN  /\ Commit([initialized EXCEPT !.controls = setupToggles(@)])
        /\ mqListener' = TRUE
        /\ initial' = initializeLocals(localStorage, osDark, initialized)
        /\ UNCHANGED <<toggleEl>>

----
\* Bootstrap and handlers of the binary script

\* initializeTheme(): the goDark call (toggleEl is still undefined)
initializeThemeBinary(d, colors, systemDark) ==
    LET storagePreference == d.localStorage["dark-mode"]
    IN  IF storagePreference # null
        THEN goDark(d, storagePreference = "true", colors, FALSE)
        ELSE goDark(d, systemDark, colors, FALSE)

\* the change listener initializeTheme adds; matches is e.matches
onSchemeChangeBinary(d, colors, matches, bound) ==
    IF d.localStorage["dark-mode"] = null
    THEN goDark(d, matches, colors, bound)
    ELSE d

\* colorModeToggle() warning without returning before it adds its
\* DOMContentLoaded listener
InertButListening(warning) ==
    /\ console' = Append(console, warning)
    /\ domListener' = TRUE
    /\ UNCHANGED <<tables, localStorage, darkMode, style, elements, controls,
                   togglePressed, toggleEl, mqListener>>

\* colorModeToggle() returning after console.warn
Inert(warning) ==
    /\ console' = Append(console, warning)
    /\ UNCHANGED <<tables, localStorage, darkMode, style, elements, controls,
                   togglePressed, toggleEl, domListener, mqListener>>

\* colorModeToggle() of the binary script
EvalBinary ==
    LET cssVariables == trColorVars
        colors       == captureColors("binary", split(cssVariables), NoColors)
    IN  /\ UNCHANGED <<preload, initial>>
        /\ IF ~scriptTag
           THEN Inert("Script tag with tr-color-vars attribute not found")
           ELSE IF Len(cssVariables) = 0
           THEN Inert("Value of tr-color-vars attribute not found")
           ELSE IF DOMAIN colors.light = {}
           THEN Inert("No variables found matching tr-color-vars attribute value")
           ELSE /\ lightColors' = colors.light
                /\ darkColors' = colors.dark
                /\ Commit(initializeThemeBinary(Current, colors, osDark))
                /\ mqListener' = TRUE
                /\ domListener' = TRUE
                /\ UNCHANGED <<toggleEl, console>>

\* the DOMContentLoaded listener of the binary script
ReadyBinary ==
    LET isDark == darkMode
    IN  /\ elements' = switchAssetsBinary(elements, isDark)
        /\ toggleEl' = TRUE
        /\ controls' = [c \in DOMAIN controls |->
                           [controls[c] EXCEPT !.ariaLabel = "Toggle Dark Mode",
                                               !.role = "button",
                                               !.ariaPressed = togglePressed,
                                               !.click = TRUE]]
        /\ UNCHANGED <<localStorage, darkMode, style, togglePressed, mqListener,
                       initial>>

\* the click listener of a binary toggle
onClickBinary(d, colors) ==
    LET darkClass == d.darkMode
    IN  IF darkClass THEN goDark(d, FALSE, colors, TRUE)
        ELSE goDark(d, TRUE, colors, TRUE)

----
\* The page: what the browser does to the script

\* the browser evaluates the script
EvalScript ==
    /\ pc = "start"
    /\ pc' = "done"
    /\ IF variant = "binary" THEN EvalBinary ELSE EvalTri
    /\ UNCHANGED <<config, osDark, readyState, clicked>>

\* the document finishes parsing: DOMContentLoaded fires once, and only
\* after a script that was evaluated while the document was loading
DOMContentLoaded ==
    /\ pc = "done"
    /\ readyState = "loading"
    /\ readyState' = "interactive"
    /\ IF ~domListener
       THEN UNCHANGED <<localStorage, darkMode, style, elements, controls,
                        togglePressed, toggleEl, mqListener, initial>>
       ELSE IF variant = "binary" THEN ReadyBinary ELSE ReadyTri
    /\ UNCHANGED <<config, osDark, pc, tables, domListener, console, preload,
                   clicked>>

\* the user clicks control c, which has a click listener
Click(c) ==
    /\ c \in DOMAIN controls
    /\ controls[c].click
    /\ LET colors == [light |-> lightColors, dark |-> darkColors]
       IN  IF variant = "binary"
           THEN Commit(onClickBinary(Current, colors))
           ELSE Commit(setTheme(Current, c, colors, osDark))
    /\ clicked' = TRUE
    /\ UNCHANGED <<config, osDark, readyState, pc, tables, toggleEl,
                   domListener, mqListener, console, preload, initial>>

\* the OS color scheme changes; the browser notifies the listener, if any
OSChange ==
    /\ osDark' = ~osDark
    /\ LET colors == [light |-> lightColors, dark |-> darkColors]
       IN  IF ~mqListener THEN Commit(Current)
           ELSE IF variant = "binary"
           THEN Commit(onSchemeChangeBinary(Current, colors, osDark', toggleEl))
           ELSE Commit(onSchemeChangeTri(Current, colors, osDark'))
    /\ UNCHANGED <<config, readyState, pc, tables, toggleEl, domListener,
                   mqListener, console, preload, initial, clicked>>

\* the user reloads the page: the document starts over from its markup,
\* storage and the OS setting stay
Reload ==
    /\ pc = "done"
    /\ pc' = "start"
    /\ readyState' = readyAtEval
    /\ lightColors' = EmptyObject
    /\ darkColors' = EmptyObject
    /\ darkMode' = FALSE
    /\ style' = EmptyObject
    /\ elements' = markup
    /\ controls' = [c \in controlsInPage |-> PlainControl]
    /\ toggleEl' = FALSE
    /\ togglePressed' = "false"
    /\ domListener' = FALSE
    /\ mqListener' = FALSE
    /\ console' = <<>>
    /\ preload' = NotRun
    /\ initial' = NotRun
    /\ UNCHANGED <<config, osDark, localStorage, clicked>>

Next ==
    \/ EvalScript
    \/ DOMContentLoaded
    \/ \E c \in Modes \cup {"toggle"} : Click(c)
    \/ OSChange
    \/ Reload

----
\* The pages of the model

\* what the stylesheet may give the root for the names brand and bg
Stylesheets ==
    {[name \in {ColorVar(<<"brand">>), DarkVar(<<"brand">>),
                ColorVar(<<"bg">>), DarkVar(<<"bg">>)} |->
         IF name = ColorVar(<<"brand">>) THEN lb
         ELSE IF name = DarkVar(<<"brand">>) THEN db
         ELSE IF name = ColorVar(<<"bg">>) THEN lg ELSE dg] :
        lb \in {"", "#111"}, db \in {"", "#eee"},
        lg \in {"", "#fff"}, dg \in {"", "#000"}}

\* brand with a dark override, bg without
BrandBgStyle ==
    [name \in {ColorVar(<<"brand">>), DarkVar(<<"brand">>), ColorVar(<<"bg">>)} |->
        IF name = ColorVar(<<"brand">>) THEN "#111"
        ELSE IF name = DarkVar(<<"brand">>) THEN "#eee" ELSE "#fff"]

\* everything but the markup: a first visit, the script not evaluated yet
FirstVisit ==
    /\ variant \in {"binary", "tri"}
    /\ readyAtEval \in {"loading", "complete"}
    /\ osDark \in BOOLEAN
    /\ localStorage = [k \in {"dark-mode", "color-mode"} |-> null]
    /\ readyState = readyAtEval
    /\ pc = "start"
    /\ lightColors = EmptyObject
    /\ darkColors = EmptyObject
    /\ darkMode = FALSE
    /\ style = EmptyObject
    /\ elements = markup
    /\ controls = [c \in controlsInPage |-> PlainControl]
    /\ toggleEl = FALSE
    /\ togglePressed = "false"
    /\ domListener = FALSE
    /\ mqListener = FALSE
    /\ console = <<>>
    /\ preload = NotRun
    /\ initial = NotRun
    /\ clicked = FALSE

\* pages with a well-formed declaration and any theme-aware element
Init ==
    /\ scriptTag = TRUE
    /\ trColorVars = <<"brand", ",", "bg">>
    /\ rootStyle = BrandBgStyle
    /\ markup \in Documents
    /\ controlsInPage \in SUBSET (Modes \cup {"toggle"})
    /\ FirstVisit
    /\ controlsInPage \subseteq ControlNames(variant)

Spec == Init /\ [][Next]_vars

\* pages with any declaration and stylesheet, one image, all controls
InitCapture ==
    /\ scriptTag \in BOOLEAN
    /\ trColorVars \in StringsUpTo(MaxLen)
    /\ scriptTag = FALSE => trColorVars = <<>>
    /\ rootStyle \in Stylesheets
    /\ markup = <<[Blank EXCEPT !.tagName = "img", !.classList = {"theme-asset"},
                                !.src = "init.png", !.srcset = "init.set",
                                !.dataLightSrc = "light.png",
                                !.dataDarkSrc = "dark.png"]>>
    /\ controlsInPage \in {Modes, {"toggle"}}
    /\ FirstVisit
    /\ controlsInPage = ControlNames(variant)

SpecCapture == InitCapture /\ [][Next]_vars

----
\* Properties

\* the stored mode of the tri-state script
colorMode == localStorage["color-mode"]

\* C1: tri-state script: while light or dark is stored, an OS color-scheme
\* change leaves the dark-mode class, the inline color variables, the
\* elements' sources, the controls and the stored value as they were
C1_ExplicitChoiceSurvivesOsChange ==
    [][(variant = "tri" /\ colorMode \in {"light", "dark"} /\ osDark' # osDark)
          => UNCHANGED <<darkMode, style, elements, controls, localStorage>>]_vars

\* dark was stored when initializeTheme ran under a dark OS; the OS has
\* turned light since, with the listener in place, and dark is still applied
C1_Witness ==
    /\ variant = "tri"
    /\ mqListener
    /\ initial.ran /\ initial.stored = "dark" /\ initial.systemDark
    /\ ~osDark
    /\ colorMode = "dark"
    /\ darkMode

\* C2: tri-state script: once initializeTheme has run, the root has the
\* dark-mode class exactly when dark is stored, or system is stored and the
\* OS is dark
C2_MarkerFollowsModeAndOs ==
    (variant = "tri" /\ initial.ran)
       => (darkMode <=> (colorMode = "dark" \/ (colorMode = "system" /\ osDark)))

\* system is stored and the OS has changed since initializeTheme ran
C2_Witness ==
    /\ variant = "tri"
    /\ initial.ran
    /\ colorMode = "system"
    /\ osDark # initial.systemDark
    /\ darkMode = osDark
    /\ clicked

\* the stored preference of the binary script
darkModeKey == localStorage["dark-mode"]

\* C3: binary script: booting without a stored preference applies the OS
\* signal and stores nothing; the key stays absent until the user clicks
\* the toggle
C3_BootStoresNothing ==
    [][(variant = "binary" /\ ~clicked')
          => /\ darkModeKey' = null
             /\ (pc = "start" /\ pc' = "done" /\ console' = <<>>)
                   => darkMode' = osDark]_vars

\* C4: binary script: while the user has never clicked the toggle, an OS
\* color-scheme change after boot re-applies the mode: class, colors and
\* sources are those of the new OS signal
C4_OsChangeReappliedBeforeAnyChoice ==
    [][(variant = "binary" /\ ~clicked /\ mqListener /\ osDark' # osDark)
          => /\ darkMode' = osDark'
             /\ style' = setColors(style, IF osDark' THEN darkColors
                                          ELSE lightColors)
             /\ elements' = switchAssetsBinary(elements, osDark')]_vars

\* C5: tri-state script: with dark stored at page load, preloadCorrectAssets
\* and initializeTheme both resolve isDark to true whatever the OS signal;
\* with system stored, to the OS signal they read
C5_StoredModeRoundTrip ==
    variant = "tri"
       => \A call \in {preload, initial} :
             call.ran => /\ call.stored = "dark" => call.isDark
                         /\ call.stored = "system"
                               => call.isDark = call.systemDark

\* a page loaded with dark stored under a light OS: both phases resolved dark
C5_Witness ==
    /\ variant = "tri"
    /\ preload.ran /\ preload.stored = "dark" /\ ~preload.systemDark
    /\ preload.isDark
    /\ initial.ran /\ initial.stored = "dark" /\ ~initial.systemDark
    /\ initial.isDark

\* C6: tri-state script: a click on the control of mode m leaves m stored,
\* and an OS color-scheme change leaves the stored value as it was
C6_OnlyClicksChangeStoredMode ==
    [][variant = "tri"
          => /\ \A m \in Modes : Click(m) => colorMode' = m
             /\ osDark' # osDark => colorMode' = colorMode]_vars

\* light was clicked on a page that loaded with system stored, and the OS
\* has changed since initializeTheme ran
C6_Witness ==
    /\ variant = "tri"
    /\ clicked
    /\ initial.ran /\ initial.stored = "system"
    /\ osDark # initial.systemDark
    /\ colorMode = "light"
    /\ "light" \in DOMAIN controls /\ controls["light"].active

\* the names the page declares
Declared ==
    IF scriptTag
    THEN {split(trColorVars)[i] : i \in 1..Len(split(trColorVars))}
    ELSE {}

\* what the stylesheet gives the root for a property
Computed(name) == IF name \in DOMAIN rootStyle THEN rootStyle[name] ELSE ""

\* no declaration element, an empty declaration, or no declared name with a
\* computed light value
Misconfigured ==
    \/ ~scriptTag
    \/ trColorVars = <<>>
    \/ \A item \in Declared : Computed(ColorVar(item)) = ""

\* a warning was logged and nothing else was done: storage, root class,
\* inline variables and elements are untouched, no handler is bound
WarnedAndInert ==
    /\ Len(console) = 1
    /\ \A key \in DOMAIN localStorage : localStorage[key] = null
    /\ ~darkMode
    /\ style = EmptyObject
    /\ elements = markup
    /\ controls = [c \in controlsInPage |-> PlainControl]
    /\ ~domListener
    /\ ~mqListener

\* C7 as stated: in every variant a misconfigured page gets a warning and
\* an inert script
C7_MisconfiguredIsInert ==
    (pc = "done" /\ Misconfigured) => WarnedAndInert

\* C7 as amended: in the binary script a misconfigured page gets a warning
\* and an inert script (the tri-state script has no such guard)
C7_MisconfiguredBinaryIsInert ==
    (variant = "binary" /\ pc = "done" /\ Misconfigured) => WarnedAndInert

\* a binary page whose declared names have no light value, after the ready
\* event and an OS change
C7_Witness ==
    /\ variant = "binary"
    /\ pc = "done"
    /\ scriptTag /\ trColorVars # <<>> /\ Misconfigured
    /\ console = <<"No variables found matching tr-color-vars attribute value">>
    /\ readyState = "interactive"
    /\ osDark

\* C8 as stated: in every variant a declared name whose computed light
\* value is empty has no entry in the light or dark mapping
C8_EmptyLightSkipped ==
    pc = "done"
       => \A item \in Declared :
             Computed(ColorVar(item)) = ""
                => /\ ColorVar(item) \notin DOMAIN lightColors
                   /\ ColorVar(item) \notin DOMAIN darkColors

\* C8 as amended: such a name has no entry in either mapping of the binary
\* script, and an entry in both mappings of the tri-state script, the light
\* one empty
C8_EmptyLightSkippedInBinaryOnly ==
    pc = "done"
       => \A item \in Declared :
             Computed(ColorVar(item)) = ""
                => IF variant = "binary"
                   THEN /\ ColorVar(item) \notin DOMAIN lightColors
                        /\ ColorVar(item) \notin DOMAIN darkColors
                   ELSE /\ ColorVar(item) \in DOMAIN lightColors
                        /\ ColorVar(item) \in DOMAIN darkColors
                        /\ lightColors[ColorVar(item)] = ""

\* the binary script on "brand,bg" with no light value for bg: only brand
\* is in the tables
C8_Witness ==
    /\ variant = "binary"
    /\ pc = "done"
    /\ trColorVars = <<"brand", ",", "bg">>
    /\ rootStyle[ColorVar(<<"bg">>)] = ""
    /\ rootStyle[DarkVar(<<"bg">>)] = "#000"
    /\ DOMAIN lightColors = {ColorVar(<<"brand">>)}
    /\ DOMAIN darkColors = {ColorVar(<<"brand">>)}

\* C9: in every variant the mappings have the same names, and a declared
\* name with a light value and no dark override has its light value in the
\* dark mapping
C9_DarkFallsBackToLight ==
    pc = "done"
       => /\ DOMAIN darkColors = DOMAIN lightColors
          /\ \A item \in Declared :
                (Computed(ColorVar(item)) # "" /\ Computed(DarkVar(item)) = "")
                   => /\ ColorVar(item) \in DOMAIN darkColors
                      /\ ColorVar(item) \in DOMAIN lightColors
                      /\ lightColors[ColorVar(item)] = Computed(ColorVar(item))
                      /\ darkColors[ColorVar(item)] = lightColors[ColorVar(item)]

\* bg has a light value and no dark override, brand has both
C9_Witness ==
    /\ pc = "done"
    /\ variant = "tri"
    /\ rootStyle[DarkVar(<<"bg">>)] = ""
    /\ rootStyle[DarkVar(<<"brand">>)] = "#eee"
    /\ ColorVar(<<"bg">>) \in DOMAIN darkColors
    /\ darkColors[ColorVar(<<"bg">>)] = "#fff"
    /\ ColorVar(<<"brand">>) \in DOMAIN darkColors
    /\ darkColors[ColorVar(<<"brand">>)] = "#eee"

\* the data attribute switchImageSource reads for a mode
TargetSrc(element, isDark) ==
    IF isDark THEN element.dataDarkSrc ELSE element.dataLightSrc

TargetSrcset(element, isDark) ==
    IF isDark THEN element.dataDarkSrcset ELSE element.dataLightSrcset

\* src and srcset of an image are kept where the target attribute is absent
Kept(before, after, isDark) ==
    /\ TargetSrc(before, isDark) = null => after.src = before.src
    /\ TargetSrcset(before, isDark) = null => after.srcset = before.srcset

\* C10: tri-state script: a step that applies a mode leaves the src of an
\* img, and of each child of a picture, unchanged when the element has no
\* source attribute for that mode, and likewise its srcset
C10_AbsentTargetKeepsSource ==
    [][(variant = "tri" /\ pc' = "done")
          => LET isDark == IF pc = "start" THEN preload'.isDark ELSE darkMode'
             IN  \A i \in 1..Len(elements) :
                    /\ elements[i].tagName = "img"
                          => Kept(elements[i], elements'[i], isDark)
                    /\ \A j \in 1..Len(elements[i].children) :
                          Kept(elements[i].children[j],
                               elements'[i].children[j], isDark)]_vars

\* an image with only a dark source still shows it after light was clicked
C10_Witness ==
    /\ variant = "tri"
    /\ elements[1].tagName = "img"
    /\ elements[1].dataLightSrc = null
    /\ elements[1].dataDarkSrc = "dark.png"
    /\ elements[1].src = "dark.png"
    /\ colorMode = "light"
    /\ ~darkMode

----
\* Properties of the Asset Resolver

\* tri-state script: switchAssets has run since the page load
Switched == variant = "tri" /\ preload.ran

\* the isDark of its latest call
SwitchedDark == IF initial.ran THEN darkMode ELSE preload.isDark

\* the isDark of the calls a step of the tri-state script makes
StepDark == IF pc = "start" THEN preload'.isDark ELSE darkMode'

\* a step of the tri-state script in which switchAssets is called: the
\* script's evaluation, DOMContentLoaded, a click, and an OS change that
\* the listener answers
SwitchingStep ==
    /\ variant = "tri"
    /\ pc' = "done"
    /\ osDark' # osDark => (mqListener /\ colorMode = "system")

Hidden(element) == "hidden" \in element.classList

Both(element) == {"dark-asset", "light-asset"} \subseteq element.classList

Neither(element) == {"dark-asset", "light-asset"} \cap element.classList = {}

\* C11: after switchAssets(isDark) an element with exactly one of the
\* classes dark-asset and light-asset is hidden exactly when its class is
\* not the one of the mode
C11_OneOfPairVisible ==
    Switched
       => \A i \in 1..Len(elements) :
             /\ (elements[i].classList \cap {"dark-asset", "light-asset"}
                    = {"dark-asset"})
                   => (Hidden(elements[i]) <=> ~SwitchedDark)
             /\ (elements[i].classList \cap {"dark-asset", "light-asset"}
                    = {"light-asset"})
                   => (Hidden(elements[i]) <=> SwitchedDark)

\* a dark-asset element hidden in the markup shows once dark is applied
C11_Witness ==
    /\ Switched
    /\ initial.ran
    /\ markup[1].classList = {"dark-asset", "hidden"}
    /\ darkMode
    /\ ~Hidden(elements[1])

----
\* Properties of the Applier and the bootstrap

\* the Color Table as the handlers see it
Colors == [light |-> lightColors, dark |-> darkColors]

\* C14: in every variant, applying the mode that was applied last once more
\* (setTheme(m) after setTheme(m), goDark(b) after goDark(b)) changes neither
\* root class, inline variables, elements, controls nor storage, and calls
\* nothing on a vector-animation player
C14_ApplyIdempotent ==
    /\ (variant = "tri" /\ initial.ran)
          => setTheme(Current, colorMode, Colors, osDark) = Current
    /\ (variant = "binary" /\ mqListener)
          => goDark(Current, darkMode, Colors, toggleEl) = Current

\* the calls a step adds to the log of a player
NewCalls(i) ==
    SubSeq(elements'[i].calls, Len(elements[i].calls) + 1,
           Len(elements'[i].calls))

Player(element) ==
    element.tagName = "lottie-player" /\ "theme-asset" \in element.classList

\* C17 as stated: switchAssets calls nothing on a player that has no source
\* attribute for the mode of the call, dark or light
C17_MissingTargetIsNoOp ==
    [][SwitchingStep
          => \A i \in 1..Len(elements) :
                (Player(elements[i]) /\ TargetSrc(elements[i], StepDark) = null)
                   => NewCalls(i) = <<>>]_vars

\* C17 as amended: in light mode switchAssets calls nothing on a player
\* without a light source; in dark mode a player without a dark source is
\* given its light source: nothing is called when it has no light source or
\* its src attribute is that source already, and it is reloaded with the
\* light source otherwise
C17_MissingDarkFallsBackToLight ==
    [][SwitchingStep
          => \A i \in 1..Len(elements) :
                LET asset == elements[i]
                IN  Player(asset)
                       => /\ (~StepDark /\ asset.dataLightSrc = null)
                                => NewCalls(i) = <<>>
                          /\ (StepDark /\ asset.dataDarkSrc = null)
                                => IF asset.dataLightSrc = null
                                      \/ asset.src = asset.dataLightSrc
                                   THEN NewCalls(i) = <<>>
                                   ELSE /\ Len(NewCalls(i)) >= 3
                                        /\ SubSeq(NewCalls(i), 1, 3)
                                              = Reloading(asset.dataLightSrc)]_vars

\* the preload under a dark OS has reloaded a player that has only a light
\* source with that source
C17_Witness ==
    /\ Switched
    /\ ~initial.ran
    /\ preload.isDark
    /\ Player(elements[1])
    /\ elements[1].dataDarkSrc = null
    /\ elements[1].calls = Reloading("light.json")

\* C18: switchAssets reloads a player only when the target source is not
\* the one the player has loaded, by stop, load(target), play; so no step
\* reloads a player twice, or with the source it has loaded
C18_ReloadOnlyOnNewSource ==
    [][SwitchingStep
          => \A i \in 1..Len(elements) :
                Player(elements[i])
                   => \/ NewCalls(i) = <<>>
                      \/ /\ Len(NewCalls(i)) = 3
                         /\ NewCalls(i) = Reloading(NewCalls(i)[2][2])
                         /\ NewCalls(i)[2][2] # elements[i].loaded]_vars

\* C15 as stated: in every variant a script evaluated in a document that is
\* past loading has, right after its evaluation, applied the mode in full
\* and bound the click handlers of the controls
C15_LoadedDocumentRunsPhase2AtOnce ==
    (pc = "done" /\ readyAtEval # "loading" /\ console = <<>>)
       => /\ IF variant = "tri" THEN initial.ran ELSE mqListener
          /\ \A c \in DOMAIN controls : controls[c].click

\* C16: tri-state script, declaration "brand,bg", --color--brand #111,
\* --dark--brand #eee, --color--bg #fff, no --dark--bg: once dark is applied
\* the inline --color--brand is #eee and --color--bg is #fff, the root has
\* the dark-mode class, and the dark control alone is active
C16_BrandBgUnderDark ==
    (variant = "tri" /\ initial.ran /\ colorMode = "dark"
        /\ trColorVars = <<"brand", ",", "bg">> /\ rootStyle = BrandBgStyle)
       => /\ style = [name \in {ColorVar(<<"brand">>), ColorVar(<<"bg">>)} |->
                         IF name = ColorVar(<<"brand">>) THEN "#eee" ELSE "#fff"]
          /\ darkMode
          /\ \A c \in DOMAIN controls : controls[c].active <=> c = "dark"

\* dark was clicked on a page with the three controls, after light had been
\* applied under a light OS
C16_Witness ==
    /\ variant = "tri"
    /\ controlsInPage = Modes
    /\ initial.ran /\ ~initial.isDark
    /\ ~osDark
    /\ clicked
    /\ colorMode = "dark"
    /\ style[ColorVar(<<"brand">>)] = "#eee"
    /\ controls["dark"].active

\* the script has applied a mode in full: setTheme of initializeTheme in
\* the tri-state script, goDark of initializeTheme in the binary one
FullApplyDone == IF variant = "tri" THEN initial.ran ELSE mqListener

\* the script has switched the assets alone: preloadCorrectAssets in the
\* tri-state script, the switchAssets call of the DOMContentLoaded
\* listener in the binary one
AssetsOnlyDone == IF variant = "tri" THEN preload.ran ELSE toggleEl

\* C19 as stated: in every variant no full application precedes the
\* application to the assets alone
C19_AssetsBeforeFullApply ==
    FullApplyDone => AssetsOnlyDone

\* C19 as amended: in the tri-state script no full application precedes
\* preloadCorrectAssets; in the binary script the full application comes
\* first, at the script's evaluation, and the switchAssets call of the
\* DOMContentLoaded listener follows it
C19_AssetsBeforeFullApplyInTriOnly ==
    IF variant = "tri"
    THEN /\ FullApplyDone => AssetsOnlyDone
         /\ pc = "done" => AssetsOnlyDone
    ELSE AssetsOnlyDone => FullApplyDone

\* the tri-state script between its phases: the assets are switched, the
\* document is still loading, nothing else is applied
C19_Witness ==
    /\ variant = "tri"
    /\ readyState = "loading"
    /\ preload.ran /\ preload.isDark
    /\ ~initial.ran
    /\ ~darkMode
    /\ elements # markup

\* C20: once the controls are bound, every toggle of the binary script has
\* role and label and aria-pressed "true" exactly when the root has the
\* dark-mode class, and the control of mode m of the tri-state script is
\* active exactly when m is the stored mode
C20_ControlsFollowMode ==
    /\ (variant = "binary" /\ toggleEl)
          => \A c \in DOMAIN controls :
                /\ controls[c].role = "button"
                /\ controls[c].ariaLabel = "Toggle Dark Mode"
                /\ controls[c].ariaPressed \in {"true", "false"}
                /\ controls[c].ariaPressed = "true" <=> darkMode
    /\ (variant = "tri" /\ initial.ran)
          => /\ \A c \in DOMAIN controls : controls[c].active <=> c = colorMode
             /\ Cardinality({c \in DOMAIN controls : controls[c].active}) <= 1

\* a binary toggle pressed after a click, under a light OS
C20_Witness ==
    /\ variant = "binary"
    /\ toggleEl
    /\ clicked
    /\ ~osDark
    /\ darkMode
    /\ "toggle" \in DOMAIN controls
    /\ controls["toggle"].ariaPressed = "true"

----
\* Properties of storage and of the bootstrap under OS changes

\* a step of the evaluated binary script that is a click on a toggle: the
\* other actions change pc, readyState or osDark
ClickStepBinary ==
    /\ variant = "binary"
    /\ pc = "done" /\ pc' = "done"
    /\ readyState' = readyState
    /\ osDark' = osDark
    /\ vars' # vars

\* C21: binary script on a well-configured page: every step that leaves
\* the script evaluated leaves the key dark-mode stored as "true" when the
\* root has the dark-mode class and as "false" when it has not, and every
\* click on a toggle negates the class and the stored value
C21_StoredKeyFollowsClass ==
    [][/\ (variant = "binary" /\ pc' = "done" /\ console' = <<>>)
             => /\ darkModeKey' \in {"true", "false"}
                /\ darkModeKey' = "true" <=> darkMode'
       /\ ClickStepBinary
             => /\ darkMode' = ~darkMode
                /\ darkModeKey' = (IF darkModeKey = "true" THEN "false"
                                   ELSE "true")]_vars

\* a toggle clicked under a light OS after the ready event: dark is stored
\* and applied
C21_Witness ==
    /\ variant = "binary"
    /\ pc = "done"
    /\ readyState = "interactive"
    /\ clicked
    /\ ~osDark
    /\ darkModeKey = "true"
    /\ darkMode
    /\ mqListener

\* what switchAssets of the tri-state script owes an element under a mode:
\* an image or a child of a picture has the source and the source set its
\* attributes give for the mode, a player has loaded the source of the mode
\* (the light one where it has no dark one), and an element with one of
\* dark-asset and light-asset is hidden when its class is not the mode's
ImageReflects(element, isDark) ==
    /\ Truthy(TargetSrc(element, isDark))
          => element.src = TargetSrc(element, isDark)
    /\ Truthy(TargetSrcset(element, isDark))
          => element.srcset = TargetSrcset(element, isDark)

PlayerReflects(element, isDark) ==
    LET target == IF isDark /\ Truthy(element.dataDarkSrc)
                  THEN element.dataDarkSrc ELSE element.dataLightSrc
    IN  Truthy(target) => element.loaded = target

AssetReflects(element, isDark) ==
    /\ (element.tagName = "img" /\ "theme-asset" \in element.classList)
          => ImageReflects(element, isDark)
    /\ (element.tagName = "picture" /\ "theme-asset" \in element.classList)
          => \A j \in 1..Len(element.children) :
                ImageReflects(element.children[j], isDark)
    /\ Player(element) => PlayerReflects(element, isDark)
    /\ (~Both(element) /\ ~Neither(element))
          => (Hidden(element)
                 <=> (IF isDark THEN "dark-asset" ELSE "light-asset")
                        \notin element.classList)

\* Phase 2 of the tri-state script running as the DOMContentLoaded
\* listener, after an OS change that followed Phase 1, mode system
Phase2AfterOsChange ==
    /\ variant = "tri"
    /\ preload.ran /\ ~initial.ran /\ initial'.ran
    /\ preload.mode = "system" /\ initial'.mode = "system"
    /\ preload.systemDark # osDark

\* C22: tri-state script, stored mode system or absent, the OS changed
\* after Phase 1 and before Phase 2: Phase 2 leaves the dark-mode class,
\* the inline color variables and every asset on the mode of the OS signal
\* of that moment
C22_OsChangeBetweenPhasesApplied ==
    [][Phase2AfterOsChange
          => /\ darkMode' = osDark
             /\ style'[ColorVar(<<"brand">>)] = (IF osDark THEN "#eee" ELSE "#111")
             /\ style'[ColorVar(<<"bg">>)] = "#fff"
             /\ \A i \in 1..Len(elements') :
                   AssetReflects(elements'[i], osDark)]_vars

====
